---- MODULE Spec2Model ----
(***************************************************************************)
(* A model of fsWithoutPermissions.c: the simulated file system's          *)
(* bookkeeping state (superblock, inode table, root directory, journal)    *)
(* and the host directory the program keeps its files in.  Every C         *)
(* function is an operator from a state record to a state record (and a    *)
(* return value where the function has one); the actions apply them.       *)
(***************************************************************************)
EXTENDS Integers, Sequences, FiniteSets, TLC

\* ------------------------------------------------------------------------
\* Sizes.  The program's tables are scaled down; the code is the same for
\* every size.
NUM_BLOCKS == 7
INODE_TABLE_SIZE == 2
DIRECT_BLOCKS == 2
MAX_ACL_ENTRIES == 3
JOURNAL_SIZE == 3
\* MAX_FILES and INODE_TABLE_SIZE are both 128 in the source.
MAX_FILES == INODE_TABLE_SIZE

PERMISSION_READ == 4
PERMISSION_WRITE == 2
PERMISSION_EXECUTE == 1

current_user_id == 11
current_group_id == 10

\* time(NULL): the clock is abstracted to one nonzero reading.
time_NULL == 1

\* File names the operations are called with; NULL is the null pointer.
Names == {"a", "b"}
NULL == "NULL"

\* ------------------------------------------------------------------------
\* Bit operations on unsigned integers.
RECURSIVE BitAnd(_, _)
BitAnd(x, y) ==
    IF x = 0 \/ y = 0 THEN 0
    ELSE (x % 2) * (y % 2) + 2 * BitAnd(x \div 2, y \div 2)

RECURSIVE BitOr(_, _)
BitOr(x, y) ==
    IF x = 0 THEN y
    ELSE IF y = 0 THEN x
    ELSE (IF x % 2 = 1 \/ y % 2 = 1 THEN 1 ELSE 0) + 2 * BitOr(x \div 2, y \div 2)

\* permissions & ~(PERMISSION_READ | PERMISSION_WRITE | PERMISSION_EXECUTE)
InvalidBits(permissions) ==
    permissions - BitAnd(permissions,
        BitOr(PERMISSION_READ, BitOr(PERMISSION_WRITE, PERMISSION_EXECUTE)))

\* ------------------------------------------------------------------------
\* The program's state.
VARIABLES
    superblock,      \* Superblock superblock
    inode_table,     \* Inode* inode_table[INODE_TABLE_SIZE]
    root_directory,  \* Directory root_directory: entries 0..entry_count-1
    journal,         \* JournalEntry journal[JOURNAL_SIZE]
    journal_index,   \* int journal_index
    journal_file,    \* the lines of journal.log
    host,            \* the files of TEST_FOLDER_PATH: name -> "none", "file", "dir"
    content,         \* the text of the files of TEST_FOLDER_PATH: name -> string
    snapshot,        \* file_system_state.dat: <<>> when absent, else one record
    hist             \* history: the entries appended by AddJournalEntry, in order

vars == <<superblock, inode_table, root_directory, journal, journal_index,
          journal_file, host, content, snapshot, hist>>

\* The program's state as one record, and a step to a given state.
Cur ==
    [superblock |-> superblock, inode_table |-> inode_table,
     root_directory |-> root_directory, journal |-> journal,
     journal_index |-> journal_index, journal_file |-> journal_file,
     host |-> host, content |-> content, snapshot |-> snapshot]

Set(S) ==
    /\ superblock' = S.superblock
    /\ inode_table' = S.inode_table
    /\ root_directory' = S.root_directory
    /\ journal' = S.journal
    /\ journal_index' = S.journal_index
    /\ journal_file' = S.journal_file
    /\ host' = S.host
    /\ content' = S.content
    /\ snapshot' = S.snapshot

\* memset(inode_table[i], 0, sizeof(Inode)).  acl holds the entries
\* 0..acl_count-1 of the acl array: no function reads the array past
\* acl_count.
ZeroInode ==
    [is_directory |-> 0, size |-> 0,
     direct_blocks |-> [j \in 0..(DIRECT_BLOCKS - 1) |-> 0],
     index_block |-> 0, mode |-> 0, owner_id |-> 0, group_id |-> 0,
     acl |-> <<>>]

\* A slot of the zero-initialised global journal[].  CREATE is enumerator 0.
ZeroEntry ==
    [operation |-> "CREATE", filename |-> "", new_filename |-> "", data |-> "",
     timestamp |-> 0]

\* init_file_system on a fresh start: load_file_system_state finds no
\* snapshot and returns.
init_file_system ==
    [superblock |->
        [num_blocks |-> NUM_BLOCKS,
         free_blocks |-> NUM_BLOCKS - 1,
         inode_table_size |-> INODE_TABLE_SIZE,
         free_inode_count |-> INODE_TABLE_SIZE,
         free_block_bitmap |-> [i \in 0..(NUM_BLOCKS - 1) |-> 0]],
     inode_table |-> [i \in 0..(INODE_TABLE_SIZE - 1) |-> ZeroInode],
     root_directory |-> <<>>,
     journal |-> [i \in 0..(JOURNAL_SIZE - 1) |-> ZeroEntry],
     journal_index |-> 0,
     journal_file |-> <<>>,
     host |-> [n \in Names |-> "none"],
     content |-> [n \in Names |-> ""],
     snapshot |-> <<>>]

Init ==
    /\ superblock = init_file_system.superblock
    /\ inode_table = init_file_system.inode_table
    /\ root_directory = init_file_system.root_directory
    /\ journal = init_file_system.journal
    /\ journal_index = init_file_system.journal_index
    /\ journal_file = init_file_system.journal_file
    /\ host = init_file_system.host
    /\ content = init_file_system.content
    /\ snapshot = init_file_system.snapshot
    /\ hist = <<>>

\* ------------------------------------------------------------------------
\* Block allocator.

\* The for loop of allocate_block: the first i >= from whose bitmap entry
\* is 0, or NUM_BLOCKS when there is none.
RECURSIVE ScanFreeBlock(_, _)
ScanFreeBlock(bitmap, from) ==
    IF from >= NUM_BLOCKS THEN NUM_BLOCKS
    ELSE IF bitmap[from] = 0 THEN from
    ELSE ScanFreeBlock(bitmap, from + 1)

\* allocate_block with the scan running downwards from the last block.
allocate_block_highest(S) ==
    LET free == {i \in 0..(NUM_BLOCKS - 1) : S.superblock.free_block_bitmap[i] = 0}
        i == CHOOSE x \in free : \A y \in free : y <= x
    IN  IF free = {} THEN [st |-> S, ret |-> -1]
        ELSE [st |-> [S EXCEPT !.superblock.free_block_bitmap[i] = 1,
                               !.superblock.free_blocks = @ - 1],
              ret |-> i]

allocate_block(S) ==
    LET i == ScanFreeBlock(S.superblock.free_block_bitmap, 0)
    IN  IF i < NUM_BLOCKS
        THEN [st |-> [S EXCEPT !.superblock.free_block_bitmap[i] = 1,
                               !.superblock.free_blocks = @ - 1],
              ret |-> i]
        ELSE [st |-> S, ret |-> -1]

\* free_block without the test of the bitmap entry.
free_block_unchecked(S, block_number) ==
    IF block_number < 0 \/ block_number >= NUM_BLOCKS THEN S
    ELSE [S EXCEPT !.superblock.free_block_bitmap[block_number] = 0,
                   !.superblock.free_blocks = @ + 1]

free_block(S, block_number) ==
    IF block_number < 0 \/ block_number >= NUM_BLOCKS THEN S
    ELSE IF S.superblock.free_block_bitmap[block_number] = 1
    THEN [S EXCEPT !.superblock.free_block_bitmap[block_number] = 0,
                   !.superblock.free_blocks = @ + 1]
    ELSE S

allocate_index_block(S) ==
    LET i == ScanFreeBlock(S.superblock.free_block_bitmap, 0)
    IN  IF i < NUM_BLOCKS
        THEN [st |-> [S EXCEPT !.superblock.free_block_bitmap[i] = 1,
                               !.superblock.free_blocks = @ - 1],
              ret |-> i]
        ELSE [st |-> S, ret |-> -1]

free_index_block(S, block_number) ==
    IF block_number < 0 \/ block_number >= NUM_BLOCKS THEN S
    ELSE IF S.superblock.free_block_bitmap[block_number] = 1
    THEN [S EXCEPT !.superblock.free_block_bitmap[block_number] = 0,
                   !.superblock.free_blocks = @ + 1]
    ELSE S

\* Block numbers the free operations are called with: every block, and one
\* number below and one above the range.
BlockArgs == (-1)..NUM_BLOCKS

AllocateBlock ==
    /\ Set(allocate_block(Cur).st)
    /\ UNCHANGED hist

FreeBlock ==
    \E n \in BlockArgs :
        /\ Set(free_block(Cur, n))
        /\ UNCHANGED hist

AllocateIndexBlock ==
    /\ Set(allocate_index_block(Cur).st)
    /\ UNCHANGED hist

FreeIndexBlock ==
    \E n \in BlockArgs :
        /\ Set(free_index_block(Cur, n))
        /\ UNCHANGED hist

NextAlloc ==
    \/ AllocateBlock
    \/ FreeBlock
    \/ AllocateIndexBlock
    \/ FreeIndexBlock

SpecAlloc == Init /\ [][NextAlloc]_vars

\* ------------------------------------------------------------------------
\* Inode table.

\* The for loop of create_inode: the first slot >= from whose size is 0,
\* or INODE_TABLE_SIZE when there is none.
RECURSIVE ScanZeroSize(_, _)
ScanZeroSize(table, from) ==
    IF from >= INODE_TABLE_SIZE THEN INODE_TABLE_SIZE
    ELSE IF table[from].size = 0 THEN from
    ELSE ScanZeroSize(table, from + 1)

\* create_inode that does not count the slot it hands out.
create_inode_not_counting(S, is_directory, mode, owner_id, group_id) ==
    IF S.superblock.free_inode_count = 0 THEN [st |-> S, ret |-> -1]
    ELSE LET i == ScanZeroSize(S.inode_table, 0)
         IN  IF i < INODE_TABLE_SIZE
             THEN [st |-> [S EXCEPT
                      !.inode_table[i] =
                          [is_directory |-> is_directory, size |-> 0,
                           direct_blocks |-> [j \in 0..(DIRECT_BLOCKS - 1) |-> -1],
                           index_block |-> -1, mode |-> mode,
                           owner_id |-> owner_id, group_id |-> group_id,
                           acl |-> <<>>]],
                   ret |-> i]
             ELSE [st |-> S, ret |-> -1]

\* create_inode that leaves acl_count as the slot had it.
create_inode_keeping_acl(S, is_directory, mode, owner_id, group_id) ==
    IF S.superblock.free_inode_count = 0 THEN [st |-> S, ret |-> -1]
    ELSE LET i == ScanZeroSize(S.inode_table, 0)
         IN  IF i < INODE_TABLE_SIZE
             THEN [st |-> [S EXCEPT
                      !.inode_table[i] =
                          [is_directory |-> is_directory, size |-> 0,
                           direct_blocks |-> [j \in 0..(DIRECT_BLOCKS - 1) |-> -1],
                           index_block |-> -1, mode |-> mode,
                           owner_id |-> owner_id, group_id |-> group_id,
                           acl |-> S.inode_table[i].acl],
                      !.superblock.free_inode_count = @ - 1],
                   ret |-> i]
             ELSE [st |-> S, ret |-> -1]

\* create_inode that takes the last slot of the table whose size is 0.
create_inode_last_slot(S, is_directory, mode, owner_id, group_id) ==
    IF S.superblock.free_inode_count = 0 THEN [st |-> S, ret |-> -1]
    ELSE LET zero == {k \in 0..(INODE_TABLE_SIZE - 1) : S.inode_table[k].size = 0}
             i == IF zero = {} THEN INODE_TABLE_SIZE
                  ELSE CHOOSE k \in zero : \A l \in zero : l <= k
         IN  IF i < INODE_TABLE_SIZE
             THEN [st |-> [S EXCEPT
                      !.inode_table[i] =
                          [is_directory |-> is_directory, size |-> 0,
                           direct_blocks |-> [j \in 0..(DIRECT_BLOCKS - 1) |-> -1],
                           index_block |-> -1, mode |-> mode,
                           owner_id |-> owner_id, group_id |-> group_id,
                           acl |-> <<>>],
                      !.superblock.free_inode_count = @ - 1],
                   ret |-> i]
             ELSE [st |-> S, ret |-> -1]

create_inode(S, is_directory, mode, owner_id, group_id) ==
    IF S.superblock.free_inode_count = 0 THEN [st |-> S, ret |-> -1]
    ELSE LET i == ScanZeroSize(S.inode_table, 0)
         IN  IF i < INODE_TABLE_SIZE
             THEN [st |-> [S EXCEPT
                      !.inode_table[i] =
                          [is_directory |-> is_directory, size |-> 0,
                           direct_blocks |-> [j \in 0..(DIRECT_BLOCKS - 1) |-> -1],
                           index_block |-> -1, mode |-> mode,
                           owner_id |-> owner_id, group_id |-> group_id,
                           acl |-> <<>>],
                      !.superblock.free_inode_count = @ - 1],
                   ret |-> i]
             ELSE [st |-> S, ret |-> -1]

\* ------------------------------------------------------------------------
\* Permissions and access control lists.

acl_count(inode) == Len(inode.acl)

set_permissions(S, inode_number, permissions) ==
    IF inode_number < 0 \/ inode_number >= INODE_TABLE_SIZE THEN S
    ELSE IF InvalidBits(permissions) # 0 THEN S
    ELSE [S EXCEPT !.inode_table[inode_number].mode = permissions]

get_permissions(S, inode_number) ==
    IF inode_number < 0 \/ inode_number >= INODE_TABLE_SIZE THEN 0
    ELSE S.inode_table[inode_number].mode

\* add_acl_entry without the test of acl_count.
add_acl_entry_unbounded(S, inode_number, user_id, permissions) ==
    IF inode_number < 0 \/ inode_number >= INODE_TABLE_SIZE THEN S
    ELSE IF InvalidBits(permissions) # 0 THEN S
    ELSE [S EXCEPT !.inode_table[inode_number].acl =
              Append(@, [user_id |-> user_id, permissions |-> permissions])]

add_acl_entry(S, inode_number, user_id, permissions) ==
    IF inode_number < 0 \/ inode_number >= INODE_TABLE_SIZE THEN S
    ELSE IF acl_count(S.inode_table[inode_number]) >= MAX_ACL_ENTRIES THEN S
    ELSE IF InvalidBits(permissions) # 0 THEN S
    ELSE [S EXCEPT !.inode_table[inode_number].acl =
              Append(@, [user_id |-> user_id, permissions |-> permissions])]

\* The for loop of remove_acl_entry and of get_acl_permissions: the first
\* index >= from (1-based) whose entry is user_id's, or 0 when there is none.
RECURSIVE ScanAcl(_, _, _)
ScanAcl(acl, user_id, from) ==
    IF from > Len(acl) THEN 0
    ELSE IF acl[from].user_id = user_id THEN from
    ELSE ScanAcl(acl, user_id, from + 1)

\* The memmove of remove_acl_entry and of delete_file: the sequence without
\* its element i.
RemoveAt(seq, i) ==
    [k \in 1..(Len(seq) - 1) |-> IF k < i THEN seq[k] ELSE seq[k + 1]]

\* remove_acl_entry that removes the last entry of user_id, not the first.
remove_acl_entry_last(S, inode_number, user_id) ==
    IF inode_number < 0 \/ inode_number >= INODE_TABLE_SIZE THEN S
    ELSE LET acl == S.inode_table[inode_number].acl
             found == {k \in 1..Len(acl) : acl[k].user_id = user_id}
         IN  IF found = {} THEN S
             ELSE [S EXCEPT !.inode_table[inode_number].acl =
                      RemoveAt(acl, CHOOSE k \in found : \A l \in found : l <= k)]

remove_acl_entry(S, inode_number, user_id) ==
    IF inode_number < 0 \/ inode_number >= INODE_TABLE_SIZE THEN S
    ELSE LET acl == S.inode_table[inode_number].acl
             i == ScanAcl(acl, user_id, 1)
         IN  IF i = 0 THEN S
             ELSE [S EXCEPT !.inode_table[inode_number].acl = RemoveAt(acl, i)]

get_acl_permissions(S, inode_number, user_id) ==
    IF inode_number < 0 \/ inode_number >= INODE_TABLE_SIZE THEN 0
    ELSE LET acl == S.inode_table[inode_number].acl
             i == ScanAcl(acl, user_id, 1)
         IN  IF i = 0 THEN 0 ELSE acl[i].permissions

\* has_permission with the access control list masking the base permissions.
has_permission_masking(S, inode_number, user_id, required_permission) ==
    IF inode_number < 0 \/ inode_number >= INODE_TABLE_SIZE THEN 0
    ELSE LET inode == S.inode_table[inode_number]
             base == IF user_id = inode.owner_id THEN (inode.mode \div 64) % 8
                     ELSE IF user_id = inode.group_id THEN (inode.mode \div 8) % 8
                     ELSE inode.mode % 8
             permissions == BitAnd(base, get_acl_permissions(S, inode_number, user_id))
         IN  IF BitAnd(permissions, required_permission) = required_permission
             THEN 1 ELSE 0

\* (mode >> 6) & 0x7 is (mode \div 64) % 8, and so on.
has_permission(S, inode_number, user_id, required_permission) ==
    IF inode_number < 0 \/ inode_number >= INODE_TABLE_SIZE THEN 0
    ELSE LET inode == S.inode_table[inode_number]
             base == IF user_id = inode.owner_id THEN (inode.mode \div 64) % 8
                     ELSE IF user_id = inode.group_id THEN (inode.mode \div 8) % 8
                     ELSE inode.mode % 8
             permissions == BitOr(base, get_acl_permissions(S, inode_number, user_id))
         IN  IF BitAnd(permissions, required_permission) = required_permission
             THEN 1 ELSE 0

\* The arguments the operations are called with.
Octal(o, g, w) == o * 64 + g * 8 + w
\* The owner, the group, and a user that is neither.
UserArgs == {current_user_id, current_group_id, 99}
OtherUser == CHOOSE u \in UserArgs : u \notin {current_user_id, current_group_id}
AclUserArgs == {current_group_id, OtherUser}
\* read, read and write, and a value with a bit outside the three.
PermArgs == {PERMISSION_READ, PERMISSION_READ + PERMISSION_WRITE,
             2 * PERMISSION_READ + PERMISSION_WRITE}
ModeArgs == {Octal(6, 4, 4), Octal(6, 4, 0)}
\* Slot 0 (the slot create_inode hands out while every size is 0), and one
\* number below and one above the range.
InodeArgs == {-1, 0, INODE_TABLE_SIZE}

CreateInode ==
    \E is_directory \in {0, 1}, mode \in ModeArgs :
        /\ Set(create_inode(Cur, is_directory, mode,
                            current_user_id, current_group_id).st)
        /\ UNCHANGED hist

SetPermissions ==
    \E ino \in InodeArgs, p \in PermArgs :
        /\ Set(set_permissions(Cur, ino, p))
        /\ UNCHANGED hist

AddAclEntry ==
    \E ino \in InodeArgs, u \in AclUserArgs, p \in PermArgs :
        /\ Set(add_acl_entry(Cur, ino, u, p))
        /\ UNCHANGED hist

RemoveAclEntry ==
    \E ino \in InodeArgs, u \in AclUserArgs :
        /\ Set(remove_acl_entry(Cur, ino, u))
        /\ UNCHANGED hist

NextAcl ==
    \/ CreateInode
    \/ SetPermissions
    \/ AddAclEntry
    \/ RemoveAclEntry

SpecAcl == Init /\ [][NextAcl]_vars

\* ------------------------------------------------------------------------
\* Journal.

\* The words fprintf("%s") writes for an operation.
operation_to_string(operation) ==
    CASE operation = "CREATE" -> <<"CREATED">>
      [] operation = "DELETE" -> <<"DELETED">>
      [] operation = "MODIFY" -> <<"MODIFIED">>
      [] operation = "RENAME" -> <<"RENAMED">>
      [] operation = "READ" -> <<"READ">>
      [] operation = "CHANGE_PERMISSIONS" -> <<"CHANGED", "PERMISSIONS">>
      [] OTHER -> <<"UNKNOWN">>

\* What "%s" leaves on the line for a string: one word, or nothing for "".
Word(str) == IF str = "" THEN <<>> ELSE <<str>>

\* The lines save_journal writes for the slots from, from + 1, ...: one line
\* per slot whose timestamp is not 0, as its timestamp and its words.
RECURSIVE JournalLines(_, _)
JournalLines(j, from) ==
    IF from >= JOURNAL_SIZE THEN <<>>
    ELSE IF j[from].timestamp = 0 THEN JournalLines(j, from + 1)
    ELSE <<[timestamp |-> j[from].timestamp,
            words |-> operation_to_string(j[from].operation)
                      \o Word(j[from].filename)
                      \o Word(j[from].new_filename)
                      \o Word(j[from].data)]>>
         \o JournalLines(j, from + 1)

\* fopen(JOURNAL_FILENAME, "w") is taken to succeed.
save_journal(S) == [S EXCEPT !.journal_file = JournalLines(S.journal, 0)]

\* strcmp of the word read back against the names of the enumeration; -1 is
\* written "UNKNOWN".
string_to_operation(str) ==
    IF str \in {"CREATE", "DELETE", "MODIFY", "RENAME", "READ", "CHANGE_PERMISSIONS"}
    THEN str
    ELSE "UNKNOWN"

\* What the local arrays new_filename and data of init_journal can hold
\* before sscanf first fills them: they are not initialised.
JunkArgs == {"", "junk"}

\* The while loop of init_journal over the lines k, k + 1, ... of the file,
\* index being the next slot.  sscanf("%ld %s %s %s %s") fills the
\* timestamp and then one array per word of the line; the line is kept when
\* at least three fields were filled.  new_filename and data: what the two
\* arrays hold when the line is read, which is what sscanf leaves in them
\* when the line has no word for them.
RECURSIVE InitJournalFrom(_, _, _, _, _)
InitJournalFrom(S, k, index, new_filename, data) ==
    IF k > Len(S.journal_file) \/ index >= JOURNAL_SIZE
    THEN [S EXCEPT !.journal_index = index % JOURNAL_SIZE]
    ELSE LET line == S.journal_file[k]
             n == Len(line.words)
             new_filename1 == IF n >= 3 THEN line.words[3] ELSE new_filename
             data1 == IF n >= 4 THEN line.words[4] ELSE data
         IN  IF 1 + n >= 3
             THEN InitJournalFrom(
                     [S EXCEPT !.journal[index] =
                         [timestamp |-> line.timestamp,
                          operation |-> string_to_operation(line.words[1]),
                          filename |-> line.words[2],
                          new_filename |-> new_filename1,
                          data |-> data1]],
                     k + 1, index + 1, new_filename1, data1)
             ELSE InitJournalFrom(S, k + 1, index, new_filename1, data1)

\* init_journal.  A journal.log that is absent and one that is empty both
\* leave journal_index 0 and the slots as they are.  junk: the two arrays
\* as the first line finds them.
init_journal(S, junk) == InitJournalFrom(S, 1, 0, junk.new_filename, junk.data)

\* add_journal_entry without its call of save_journal.
add_journal_entry_unsaved(S, operation, filename, new_filename, data) ==
    IF filename = NULL THEN S
    ELSE [S EXCEPT
            !.journal[S.journal_index] =
                [operation |-> operation,
                 filename |-> filename,
                 new_filename |-> IF new_filename = NULL THEN "" ELSE new_filename,
                 data |-> IF data = NULL THEN "" ELSE data,
                 timestamp |-> time_NULL],
            !.journal_index = (@ + 1) % JOURNAL_SIZE]

\* add_journal_entry without the wraparound of journal_index: past the last
\* slot the index stays on it.
add_journal_entry_nowrap(S, operation, filename, new_filename, data) ==
    IF filename = NULL THEN S
    ELSE save_journal(
            [S EXCEPT
                !.journal[S.journal_index] =
                    [operation |-> operation,
                     filename |-> filename,
                     new_filename |-> IF new_filename = NULL THEN "" ELSE new_filename,
                     data |-> IF data = NULL THEN "" ELSE data,
                     timestamp |-> time_NULL],
                !.journal_index =
                    IF @ + 1 < JOURNAL_SIZE THEN @ + 1 ELSE JOURNAL_SIZE - 1])

add_journal_entry(S, operation, filename, new_filename, data) ==
    IF filename = NULL THEN S
    ELSE save_journal(
            [S EXCEPT
                !.journal[S.journal_index] =
                    [operation |-> operation,
                     filename |-> filename,
                     new_filename |-> IF new_filename = NULL THEN "" ELSE new_filename,
                     data |-> IF data = NULL THEN "" ELSE data,
                     timestamp |-> time_NULL],
                !.journal_index = (@ + 1) % JOURNAL_SIZE])

\* ------------------------------------------------------------------------
\* Files and directories.

\* access(TEST_FOLDER_PATH path, F_OK) == 0
file_exists(S, path) == S.host[path] # "none"

\* The for loops over root_directory.entries: the first index >= from
\* (1-based) whose name is filename, or 0 when there is none.
RECURSIVE ScanDirectory(_, _, _)
ScanDirectory(dir, filename, from) ==
    IF from > Len(dir) THEN 0
    ELSE IF dir[from].name = filename THEN from
    ELSE ScanDirectory(dir, filename, from + 1)

find_inode_by_filename(S, filename) ==
    IF filename = NULL \/ filename = "" THEN -1
    ELSE LET i == ScanDirectory(S.root_directory, filename, 1)
         IN  IF i = 0 THEN -1 ELSE S.root_directory[i].inode_number

\* fopen_ok: whether fopen(full_path, "w") opens the file.
create_file(S, path, is_directory, fopen_ok) ==
    IF file_exists(S, path) THEN [st |-> S, ret |-> -1]
    ELSE LET c == create_inode(S, is_directory, Octal(7, 7, 7),
                               current_user_id, current_group_id)
         IN  IF c.ret = -1 THEN [st |-> S, ret |-> -1]
             ELSE LET S1 == [c.st EXCEPT !.root_directory =
                                Append(@, [name |-> path, inode_number |-> c.ret])]
                  IN  IF ~fopen_ok THEN [st |-> S1, ret |-> -1]
                      ELSE [st |-> add_journal_entry(
                                      [S1 EXCEPT !.host[path] = "file"],
                                      "CREATE", path, NULL, NULL),
                            ret |-> 0]

\* The loop over direct_blocks of delete_file, from block j on.
RECURSIVE FreeDirectBlocks(_, _, _)
FreeDirectBlocks(S, inode_number, j) ==
    IF j >= DIRECT_BLOCKS THEN S
    ELSE IF S.inode_table[inode_number].direct_blocks[j] # -1
    THEN FreeDirectBlocks(
            [free_block(S, S.inode_table[inode_number].direct_blocks[j])
                EXCEPT !.inode_table[inode_number].direct_blocks[j] = -1],
            inode_number, j + 1)
    ELSE FreeDirectBlocks(S, inode_number, j + 1)

\* RemoveEntry that drops the last entry of the directory in place of the
\* entry found.
RemoveEntry_truncating(S, i) ==
    LET inode_number == S.root_directory[i].inode_number
        S1 == FreeDirectBlocks(S, inode_number, 0)
        S2 == IF S1.inode_table[inode_number].index_block # -1
              THEN [free_index_block(S1, S1.inode_table[inode_number].index_block)
                        EXCEPT !.inode_table[inode_number].index_block = -1]
              ELSE S1
    IN  [S2 EXCEPT !.inode_table[inode_number].is_directory = 0,
                   !.inode_table[inode_number].size = 0,
                   !.root_directory = SubSeq(@, 1, Len(@) - 1)]

\* RemoveEntry that gives the inode back to free_inode_count.
RemoveEntry_counting(S, i) ==
    LET inode_number == S.root_directory[i].inode_number
        S1 == FreeDirectBlocks(S, inode_number, 0)
        S2 == IF S1.inode_table[inode_number].index_block # -1
              THEN [free_index_block(S1, S1.inode_table[inode_number].index_block)
                        EXCEPT !.inode_table[inode_number].index_block = -1]
              ELSE S1
    IN  [S2 EXCEPT !.inode_table[inode_number].is_directory = 0,
                   !.inode_table[inode_number].size = 0,
                   !.superblock.free_inode_count = @ + 1,
                   !.root_directory = RemoveAt(@, i)]

\* The body of the loop of delete_file and delete_directory for the entry
\* found at index i: free the blocks, reset the inode, remove the entry.
RemoveEntry(S, i) ==
    LET inode_number == S.root_directory[i].inode_number
        S1 == FreeDirectBlocks(S, inode_number, 0)
        S2 == IF S1.inode_table[inode_number].index_block # -1
              THEN [free_index_block(S1, S1.inode_table[inode_number].index_block)
                        EXCEPT !.inode_table[inode_number].index_block = -1]
              ELSE S1
    IN  [S2 EXCEPT !.inode_table[inode_number].is_directory = 0,
                   !.inode_table[inode_number].size = 0,
                   !.root_directory = RemoveAt(@, i)]

\* remove_ok: whether remove(full_path) succeeds on a file; it fails on a
\* directory.
delete_file(S, filename, remove_ok) ==
    IF ~file_exists(S, filename) THEN S
    ELSE IF ~(remove_ok /\ S.host[filename] = "file") THEN S
    ELSE LET S1 == [S EXCEPT !.host[filename] = "none", !.content[filename] = ""]
             i == ScanDirectory(S1.root_directory, filename, 1)
             S2 == IF i = 0 THEN S1 ELSE RemoveEntry(S1, i)
         IN  add_journal_entry(S2, "DELETE", filename, NULL, NULL)

\* rename_ok: whether rename(old_path, new_path) succeeds when old_path
\* exists; it fails when it does not.
rename_file(S, old_name, new_name, rename_ok) ==
    IF file_exists(S, new_name) THEN S
    ELSE IF ~(rename_ok /\ S.host[old_name] # "none") THEN S
    ELSE LET S1 == [S EXCEPT !.host[new_name] = S.host[old_name],
                             !.host[old_name] = "none",
                             !.content[new_name] = S.content[old_name],
                             !.content[old_name] = ""]
             i == ScanDirectory(S1.root_directory, old_name, 1)
             S2 == IF i = 0 THEN S1
                   ELSE [S1 EXCEPT !.root_directory[i].name = new_name]
         IN  add_journal_entry(S2, "RENAME", old_name, new_name, NULL)

\* mkdir_ok: whether _mkdir(full_path) succeeds.
create_directory(S, path, mkdir_ok) ==
    IF file_exists(S, path) THEN [st |-> S, ret |-> -1]
    ELSE IF ~mkdir_ok THEN [st |-> S, ret |-> -1]
    ELSE LET S1 == [S EXCEPT !.host[path] = "dir"]
             c == create_inode(S1, 1, Octal(7, 5, 5),
                               current_user_id, current_group_id)
         IN  IF c.ret = -1 THEN [st |-> S1, ret |-> -1]
             ELSE [st |-> add_journal_entry(
                             [c.st EXCEPT !.root_directory =
                                 Append(@, [name |-> path, inode_number |-> c.ret])],
                             "CREATE", path, NULL, NULL),
                   ret |-> 0]

\* rmdir_ok: whether _rmdir(full_path) succeeds on a directory; it fails on
\* a file.
delete_directory(S, path, rmdir_ok) ==
    IF ~file_exists(S, path) THEN S
    ELSE IF ~(rmdir_ok /\ S.host[path] = "dir") THEN S
    ELSE LET S1 == [S EXCEPT !.host[path] = "none"]
             i == ScanDirectory(S1.root_directory, path, 1)
             S2 == IF i = 0 THEN S1 ELSE RemoveEntry(S1, i)
         IN  add_journal_entry(S2, "DELETE", path, NULL, NULL)

\* create_directory_dialog: mkdir on the host, and nothing else.
create_directory_dialog(S, dir_name, mkdir_ok) ==
    IF mkdir_ok /\ ~file_exists(S, dir_name)
    THEN [S EXCEPT !.host[dir_name] = "dir"]
    ELSE S

\* The body of the loop of replay_journal for slot i.  ok: whether the host
\* call of the operation replayed for the slot succeeds.  MODIFY opens
\* entry->filename relative to the working directory: ok there says that
\* this is TEST_FOLDER_PATH and that fopen succeeds; the file then holds
\* entry->data.
ReplayStep(S, i, ok) ==
    LET entry == S.journal[i]
    IN  IF entry.timestamp = 0 THEN S
        ELSE IF entry.operation = "CREATE"
        THEN create_file(S, entry.filename, 0, ok).st
        ELSE IF entry.operation = "DELETE"
        THEN delete_file(S, entry.filename, ok)
        ELSE IF entry.operation = "MODIFY"
        THEN IF ok /\ entry.filename \in Names /\ S.host[entry.filename] # "dir"
             THEN [S EXCEPT !.host[entry.filename] = "file",
                            !.content[entry.filename] = entry.data]
             ELSE S
        ELSE IF entry.operation = "RENAME"
        THEN rename_file(S, entry.filename, entry.new_filename, ok)
        ELSE S

\* replay_journal whose loop ends at the first entry with an unknown
\* operation.
RECURSIVE ReplayFrom_stopping(_, _, _)
ReplayFrom_stopping(S, i, ok) ==
    IF i >= JOURNAL_SIZE THEN S
    ELSE IF S.journal[i].timestamp # 0 /\ S.journal[i].operation = "UNKNOWN" THEN S
    ELSE ReplayFrom_stopping(ReplayStep(S, i, ok[i]), i + 1, ok)

\* replay_journal from slot i on.  The loop reads journal[i] when it gets
\* to it, after the appends of the operations replayed before.  ok[i]:
\* whether the host call of the operation replayed for slot i succeeds.
RECURSIVE ReplayFrom(_, _, _)
ReplayFrom(S, i, ok) ==
    IF i >= JOURNAL_SIZE THEN S
    ELSE ReplayFrom(ReplayStep(S, i, ok[i]), i + 1, ok)

replay_journal(S, ok) == ReplayFrom(S, 0, ok)

\* ------------------------------------------------------------------------
\* Snapshot, permissions, editing.

\* save_file_system_state that writes after what the file holds, so that a
\* file already there keeps its first record.
save_file_system_state_appending(S, fopen_ok) ==
    IF ~fopen_ok \/ S.snapshot # <<>> THEN S
    ELSE [S EXCEPT !.snapshot =
            <<[superblock |-> S.superblock,
               inode_table |->
                   [i \in 0..(S.superblock.inode_table_size - 1) |-> S.inode_table[i]]]>>]

\* fopen_ok: whether fopen("file_system_state.dat", "wb") opens the file.
\* "wb" truncates it; the superblock and the first
\* superblock.inode_table_size inodes are then written.
save_file_system_state(S, fopen_ok) ==
    IF ~fopen_ok THEN S
    ELSE [S EXCEPT !.snapshot =
            <<[superblock |-> S.superblock,
               inode_table |->
                   [i \in 0..(S.superblock.inode_table_size - 1) |-> S.inode_table[i]]]>>]

\* fopen("file_system_state.dat", "rb") fails when the file is absent.  The
\* loop over the inodes runs up to the inode_table_size just read.
load_file_system_state(S) ==
    IF S.snapshot = <<>> THEN S
    ELSE LET fs_file == S.snapshot[1]
         IN  [S EXCEPT
                !.superblock = fs_file.superblock,
                !.inode_table =
                    [i \in 0..(INODE_TABLE_SIZE - 1) |->
                        IF i < fs_file.superblock.inode_table_size
                        THEN fs_file.inode_table[i]
                        ELSE S.inode_table[i]]]

save_permissions(S, fopen_ok) == save_file_system_state(S, fopen_ok)

load_permissions(S) == load_file_system_state(S)

\* A new run of the program on the files the last one left: main calls
\* init_file_system, which ends with load_file_system_state.  The journal
\* and the root directory of the new process are the zeroed globals.
main(S) ==
    load_file_system_state(
        [init_file_system EXCEPT
            !.journal_file = S.journal_file,
            !.host = S.host,
            !.content = S.content,
            !.snapshot = S.snapshot])

\* One digit of snprintf("%o").
OctalDigit(d) ==
    CASE d = 0 -> "0" [] d = 1 -> "1" [] d = 2 -> "2" [] d = 3 -> "3"
      [] d = 4 -> "4" [] d = 5 -> "5" [] d = 6 -> "6" [] OTHER -> "7"

\* snprintf(mode_str, sizeof(mode_str), "%o", new_mode)
RECURSIVE mode_str(_)
mode_str(new_mode) ==
    IF new_mode < 8 THEN OctalDigit(new_mode)
    ELSE mode_str(new_mode \div 8) \o OctalDigit(new_mode % 8)

\* change_file_permissions that saves the snapshot before it sets the mode.
change_file_permissions_saving_first(S, filename, new_mode, fopen_ok) ==
    LET inode_number == find_inode_by_filename(S, filename)
    IN  IF inode_number = -1 THEN [st |-> S, ret |-> -1]
        ELSE LET S1 == save_permissions(S, fopen_ok)
                 S2 == [S1 EXCEPT !.inode_table[inode_number].mode = new_mode]
             IN  [st |-> add_journal_entry(S2, "CHANGE_PERMISSIONS", filename,
                                           mode_str(new_mode), NULL),
                  ret |-> 0]

\* fopen_ok: whether save_permissions can write the snapshot.
change_file_permissions(S, filename, new_mode, fopen_ok) ==
    LET inode_number == find_inode_by_filename(S, filename)
    IN  IF inode_number = -1 THEN [st |-> S, ret |-> -1]
        ELSE LET S1 == [S EXCEPT !.inode_table[inode_number].mode = new_mode]
                 S2 == save_permissions(S1, fopen_ok)
             IN  [st |-> add_journal_entry(S2, "CHANGE_PERMISSIONS", filename,
                                           mode_str(new_mode), NULL),
                  ret |-> 0]

\* open_ok: whether fopen(full_path, "r+") and the reading of the file
\* succeed when the file is there; response: the button of the dialog;
\* new_contents: the text of the buffer; save_ok: whether
\* fopen(full_path, "w") opens the file.
edit_file(S, filename, open_ok, response, new_contents, save_ok) ==
    IF ~(open_ok /\ S.host[filename] = "file") THEN S
    ELSE LET S1 == IF response = "ACCEPT" /\ save_ok
                   THEN [S EXCEPT !.content[filename] = new_contents]
                   ELSE S
         IN  add_journal_entry(S1, "MODIFY", filename, NULL, NULL)

\* response: the button of the question, YES to edit and NO to view;
\* open_ok on the view branch: whether fopen(full_path, "r") succeeds.
open_file(S, filename, response, open_ok, edit_response, new_contents, save_ok) ==
    IF ~file_exists(S, filename) THEN S
    ELSE IF response = "YES"
    THEN add_journal_entry(
            edit_file(S, filename, open_ok, edit_response, new_contents, save_ok),
            "READ", filename, NULL, NULL)
    ELSE IF ~(open_ok /\ S.host[filename] = "file") THEN S
    ELSE add_journal_entry(S, "READ", filename, NULL, NULL)

CreateFile ==
    \E path \in Names, fopen_ok \in BOOLEAN :
        /\ Set(create_file(Cur, path, 0, fopen_ok).st)
        /\ UNCHANGED hist

DeleteFile ==
    \E filename \in Names, remove_ok \in BOOLEAN :
        /\ Set(delete_file(Cur, filename, remove_ok))
        /\ UNCHANGED hist

RenameFile ==
    \E old_name \in Names, new_name \in Names, rename_ok \in BOOLEAN :
        /\ Set(rename_file(Cur, old_name, new_name, rename_ok))
        /\ UNCHANGED hist

CreateDirectory ==
    \E path \in Names, mkdir_ok \in BOOLEAN :
        /\ Set(create_directory(Cur, path, mkdir_ok).st)
        /\ UNCHANGED hist

DeleteDirectory ==
    \E path \in Names, rmdir_ok \in BOOLEAN :
        /\ Set(delete_directory(Cur, path, rmdir_ok))
        /\ UNCHANGED hist

CreateDirectoryDialog ==
    \E dir_name \in Names, mkdir_ok \in BOOLEAN :
        /\ Set(create_directory_dialog(Cur, dir_name, mkdir_ok))
        /\ UNCHANGED hist

ReplayJournal ==
    \E ok \in [0..(JOURNAL_SIZE - 1) -> BOOLEAN] :
        /\ Set(replay_journal(Cur, ok))
        /\ UNCHANGED hist

NextFs ==
    \/ CreateFile
    \/ DeleteFile
    \/ RenameFile
    \/ CreateDirectory
    \/ DeleteDirectory
    \/ CreateDirectoryDialog
    \/ ReplayJournal

SpecFs == Init /\ [][NextFs]_vars

\* ------------------------------------------------------------------------
\* Recovery: the journal read back and replayed.

JunkFills == [new_filename : JunkArgs, data : JunkArgs]

InitJournal ==
    \E junk \in JunkFills :
        /\ Set(init_journal(Cur, junk))
        /\ UNCHANGED hist

NextRecovery ==
    \/ CreateFile
    \/ DeleteFile
    \/ RenameFile
    \/ InitJournal
    \/ ReplayJournal

SpecRecovery == Init /\ [][NextRecovery]_vars

\* ------------------------------------------------------------------------
\* Permissions and editing of the files of the directory, over restarts.

\* No permission at all, rw-r-----, and a mode above 0777.
ChmodArgs == {0, 8 * Octal(1, 0, 0)}
ContentArgs == {"text"}

ChangeFilePermissions ==
    \E filename \in Names, new_mode \in ChmodArgs, fopen_ok \in BOOLEAN :
        /\ Set(change_file_permissions(Cur, filename, new_mode, fopen_ok).st)
        /\ UNCHANGED hist

EditFile ==
    \E filename \in Names, open_ok \in BOOLEAN, response \in {"ACCEPT", "CANCEL"},
       new_contents \in ContentArgs, save_ok \in BOOLEAN :
        /\ Set(edit_file(Cur, filename, open_ok, response, new_contents, save_ok))
        /\ UNCHANGED hist

OpenFile ==
    \E filename \in Names, response \in {"YES", "NO"}, open_ok \in BOOLEAN,
       edit_response \in {"ACCEPT", "CANCEL"}, new_contents \in ContentArgs,
       save_ok \in BOOLEAN :
        /\ Set(open_file(Cur, filename, response, open_ok, edit_response,
                         new_contents, save_ok))
        /\ UNCHANGED hist

Main ==
    /\ Set(main(Cur))
    /\ UNCHANGED hist

NextPerm ==
    \/ CreateFile
    \/ DeleteFile
    \/ ChangeFilePermissions
    \/ Main

SpecPerm == Init /\ [][NextPerm]_vars

SavePermissions ==
    \E fopen_ok \in BOOLEAN :
        /\ Set(save_permissions(Cur, fopen_ok))
        /\ UNCHANGED hist

LoadPermissions ==
    /\ Set(load_permissions(Cur))
    /\ UNCHANGED hist

\* The snapshot saved and loaded between changes of the superblock and of
\* the inode table, over restarts.
NextSnapshot ==
    \/ AllocateBlock
    \/ CreateInode
    \/ SetPermissions
    \/ SavePermissions
    \/ LoadPermissions
    \/ Main

SpecSnapshot == Init /\ [][NextSnapshot]_vars

\* Files and directories created and deleted, with the ACL of their inodes
\* edited in between.
NextInode ==
    \/ CreateFile
    \/ DeleteFile
    \/ CreateDirectory
    \/ AddAclEntry

SpecInode == Init /\ [][NextInode]_vars

\* Files created and their permissions changed.
NextChmod ==
    \/ CreateFile
    \/ ChangeFilePermissions

SpecChmod == Init /\ [][NextChmod]_vars

NextEdit ==
    \/ CreateFile
    \/ DeleteFile
    \/ EditFile
    \/ OpenFile

SpecEdit == Init /\ [][NextEdit]_vars

\* The journal alone: add_journal_entry called on an empty journal, at most
\* twice JOURNAL_SIZE times.  hist records the appends.
AppendArgs ==
    {<<"CREATE", "a", NULL, NULL>>,
     <<"RENAME", "a", "b", NULL>>,
     <<"MODIFY", "b", NULL, "text">>,
     <<"DELETE", NULL, NULL, NULL>>}

AddJournalEntry ==
    \E e \in AppendArgs :
        /\ Len(hist) < 2 * JOURNAL_SIZE
        /\ Set(add_journal_entry(Cur, e[1], e[2], e[3], e[4]))
        /\ hist' = IF e[2] = NULL THEN hist ELSE Append(hist, e)

NextJournal == AddJournalEntry

SpecJournal == Init /\ [][NextJournal]_vars

\* Every operation of the program.
Next ==
    \/ NextAlloc
    \/ NextAcl
    \/ NextFs
    \/ NextJournal
    \/ NextRecovery
    \/ NextPerm
    \/ NextEdit
    \/ NextInode
    \/ NextSnapshot
    \/ NextChmod

Spec == Init /\ [][Next]_vars

\* ========================================================================
\* Properties.

BlockRange == 0..(NUM_BLOCKS - 1)
InodeRange == 0..(INODE_TABLE_SIZE - 1)
FreeSet(S) == {i \in BlockRange : S.superblock.free_block_bitmap[i] = 0}
UsedSet(S) == {i \in BlockRange : S.superblock.free_block_bitmap[i] = 1}

\* C1: in every reachable state free_blocks is the number of bitmap entries
\* marked free, and free_blocks plus the number of used blocks is num_blocks.
C1_FreeBlocksCountBitmap ==
    /\ superblock.free_blocks = Cardinality(FreeSet(Cur))
    /\ superblock.free_blocks + Cardinality(UsedSet(Cur)) = superblock.num_blocks

\* What C2 says of the result r of an allocation in state S.
AllocatesLowestFree(S, r) ==
    IF FreeSet(S) = {}
    THEN r.ret = -1 /\ r.st = S
    ELSE /\ r.ret \in FreeSet(S)
         /\ \A j \in FreeSet(S) : r.ret <= j
         /\ r.st.superblock.free_block_bitmap =
                [S.superblock.free_block_bitmap EXCEPT ![r.ret] = 1]
         /\ r.st.superblock.free_blocks = S.superblock.free_blocks - 1
         /\ \A f \in DOMAIN S \ {"superblock"} : r.st[f] = S[f]

\* C2: in every reachable state allocate_block and allocate_index_block
\* return the lowest block whose bitmap entry is free, mark it used and
\* decrement free_blocks by one; with no free entry they return -1 and
\* change nothing.
C2_AllocateLowestFree ==
    /\ AllocatesLowestFree(Cur, allocate_block(Cur))
    /\ AllocatesLowestFree(Cur, allocate_index_block(Cur))

\* C2's case: a free block lies between two allocated ones.
C2_Witness ==
    /\ superblock.free_block_bitmap[0] = 1
    /\ superblock.free_block_bitmap[1] = 0
    /\ superblock.free_block_bitmap[2] = 1
    /\ allocate_block(Cur).ret = 1

\* C3: in every reachable state, for every block number, a second
\* free_block changes nothing after the first, and free_block changes
\* nothing when the number is out of range or the block is already free
\* (and so for free_index_block).
C3_FreeBlockIdempotent ==
    \A n \in BlockArgs :
        /\ free_block(free_block(Cur, n), n) = free_block(Cur, n)
        /\ free_index_block(free_index_block(Cur, n), n) = free_index_block(Cur, n)
        /\ (n \notin BlockRange \/ n \in FreeSet(Cur)) =>
               /\ free_block(Cur, n) = Cur
               /\ free_index_block(Cur, n) = Cur

\* C3's case: block 0 has been allocated and freed again, and block 1 is
\* in use, so that freeing it changes the state.
C3_Witness ==
    /\ superblock.free_block_bitmap[0] = 0
    /\ superblock.free_block_bitmap[1] = 1
    /\ free_block(Cur, 1) # Cur
    /\ free_block(free_block(Cur, 1), 1) = free_block(Cur, 1)

\* The permissions a 3-bit value holds, and the value of a set of them.
PermissionBits == {PERMISSION_READ, PERMISSION_WRITE, PERMISSION_EXECUTE}
Bits(x) == {b \in PermissionBits : (x \div b) % 2 = 1}
Value(R) ==
    (IF PERMISSION_READ \in R THEN PERMISSION_READ ELSE 0)
    + (IF PERMISSION_WRITE \in R THEN PERMISSION_WRITE ELSE 0)
    + (IF PERMISSION_EXECUTE \in R THEN PERMISSION_EXECUTE ELSE 0)

\* B: the bits of the class user_id falls in.
BasePermissions(inode, user_id) ==
    IF user_id = inode.owner_id THEN Bits(inode.mode \div 64)
    ELSE IF user_id = inode.group_id THEN Bits(inode.mode \div 8)
    ELSE Bits(inode.mode)

\* A: the override stored for user_id, the first one when several entries
\* carry user_id; empty when there is none.
AclOverride(inode, user_id) ==
    LET at == {i \in 1..Len(inode.acl) : inode.acl[i].user_id = user_id}
    IN  IF at = {} THEN {}
        ELSE Bits(inode.acl[CHOOSE i \in at : \A k \in at : i <= k].permissions)

\* C4: in every reachable state, for every inode number, user and set R of
\* permissions, has_permission is true exactly when R is contained in the
\* union of the base permissions and the override of the user, and false
\* for an inode number out of range.
C4_ResolveIsBaseOrAcl ==
    \A ino \in InodeArgs \cup InodeRange, u \in UserArgs, R \in SUBSET PermissionBits :
        IF ino \in InodeRange
        THEN (has_permission(Cur, ino, u, Value(R)) = 1)
                 <=> (R \subseteq BasePermissions(inode_table[ino], u)
                                  \cup AclOverride(inode_table[ino], u))
        ELSE has_permission(Cur, ino, u, Value(R)) = 0

\* C4's case: inode 0 is owned by user 11 with mode 0640, the other bits
\* grant nothing, and an override gives user 99 read access while the group
\* has an override of its own.
C4_Witness ==
    /\ inode_table[0].owner_id = current_user_id
    /\ inode_table[0].mode = Octal(6, 4, 0)
    /\ \E i \in 1..Len(inode_table[0].acl) :
           inode_table[0].acl[i].user_id = current_group_id
    /\ has_permission(Cur, 0, OtherUser, PERMISSION_READ) = 1
    /\ has_permission(Cur, 0, OtherUser, PERMISSION_EXECUTE) = 0
    /\ has_permission(Cur, 0, current_user_id, PERMISSION_READ + PERMISSION_WRITE) = 1

\* C5: in every reachable state, an add_acl_entry(inode, u, P) that is
\* accepted (inode in range, list not full, P valid) makes has_permission
\* true for u and every p contained in P.
C5_AddedEntryGrants ==
    \A ino \in InodeRange, u \in AclUserArgs, P \in PermArgs :
        (acl_count(inode_table[ino]) < MAX_ACL_ENTRIES /\ P \in 0..7) =>
            \A R \in SUBSET Bits(P) :
                has_permission(add_acl_entry(Cur, ino, u, P), ino, u, Value(R)) = 1

\* C6: in every reachable state no two entries of an inode's list carry the
\* same user_id.
C6_AclUsersUnique ==
    \A ino \in InodeRange :
        \A i, k \in 1..Len(inode_table[ino].acl) :
            inode_table[ino].acl[i].user_id = inode_table[ino].acl[k].user_id
                => i = k

\* C7: in every reachable state acl_count is between 0 and MAX_ACL_ENTRIES
\* for every inode, and add_acl_entry changes nothing when the list is
\* full, the permissions hold a bit outside read, write and execute, or the
\* inode number is out of range.
C7_AddAclEntryRejects ==
    /\ \A ino \in InodeRange :
           /\ acl_count(inode_table[ino]) >= 0
           /\ acl_count(inode_table[ino]) <= MAX_ACL_ENTRIES
    /\ \A ino \in InodeArgs \cup InodeRange, u \in AclUserArgs, P \in PermArgs :
           (\/ ino \notin InodeRange
            \/ Len(inode_table[ino].acl) = MAX_ACL_ENTRIES
            \/ P \notin 0..7)
               => add_acl_entry(Cur, ino, u, P) = Cur

\* C7's case: the list of inode 0 is full, after accepted calls.
C7_Witness ==
    /\ acl_count(inode_table[0]) = MAX_ACL_ENTRIES
    /\ add_acl_entry(Cur, 0, OtherUser, PERMISSION_READ) = Cur

\* C8: in every reachable state no two entries of root_directory have the
\* same name.
C8_NamesUnique ==
    \A i, k \in 1..Len(root_directory) :
        root_directory[i].name = root_directory[k].name => i = k

\* root_directory with the name of its first entry called old_name changed
\* to new_name.
Renamed(dir, old_name, new_name) ==
    LET at == {i \in 1..Len(dir) : dir[i].name = old_name}
    IN  IF at = {} THEN dir
        ELSE [dir EXCEPT ![CHOOSE i \in at : \A k \in at : i <= k].name = new_name]

\* C9: in every reachable state, rename_file leaves root_directory as it is
\* when new_name is the name of an entry; otherwise it changes at most the
\* name of the entry of old_name, in place.
C9_RenameCollisionFails ==
    \A old_name \in Names, new_name \in Names, rename_ok \in BOOLEAN :
        LET after == rename_file(Cur, old_name, new_name, rename_ok).root_directory
        IN  IF \E i \in 1..Len(root_directory) : root_directory[i].name = new_name
            THEN after = root_directory
            ELSE after \in {root_directory, Renamed(root_directory, old_name, new_name)}

\* The slots of the journal that hold an entry.
NonEmptySlots(j) == {i \in 0..(JOURNAL_SIZE - 1) : j[i].timestamp # 0}

\* Slot i holds the append e.
Holds(slot, e) ==
    /\ slot.timestamp # 0
    /\ slot.operation = e[1]
    /\ slot.filename = e[2]
    /\ slot.new_filename = (IF e[3] = NULL THEN "" ELSE e[3])
    /\ slot.data = (IF e[4] = NULL THEN "" ELSE e[4])

\* After the appends h to an empty journal: up to JOURNAL_SIZE appends fill
\* the slots in order; JOURNAL_SIZE + k appends leave every slot non-empty,
\* slot i < k holding append JOURNAL_SIZE + i and the others their first
\* entry.
WrappedAround(j, h) ==
    LET n == Len(h)
    IN  IF n <= JOURNAL_SIZE
        THEN /\ NonEmptySlots(j) = 0..(n - 1)
             /\ \A i \in 0..(n - 1) : Holds(j[i], h[i + 1])
        ELSE /\ Cardinality(NonEmptySlots(j)) = JOURNAL_SIZE
             /\ \A i \in 0..(JOURNAL_SIZE - 1) :
                    IF i < n - JOURNAL_SIZE
                    THEN Holds(j[i], h[JOURNAL_SIZE + i + 1])
                    ELSE Holds(j[i], h[i + 1])

\* C10: every step leaves the journal as JOURNAL_SIZE + k appends to an
\* empty journal must (the oldest k entries overwritten by the newest k),
\* and the number of non-empty slots never decreases.
C10_JournalWraparound ==
    [][/\ WrappedAround(journal', hist')
       /\ Cardinality(NonEmptySlots(journal')) >= Cardinality(NonEmptySlots(journal))
      ]_vars

\* C10's case: JOURNAL_SIZE + 2 appends, the first slot overwritten by an
\* entry that differs from the one it held.
C10_Witness ==
    /\ Len(hist) = JOURNAL_SIZE + 2
    /\ hist[1] # hist[JOURNAL_SIZE + 1]
    /\ Holds(journal[0], hist[JOURNAL_SIZE + 1])
    /\ Holds(journal[2], hist[3])

\* ------------------------------------------------------------------------
\* C11..C20.

\* What the claims call the bookkeeping state.
Bookkeeping(S) ==
    [superblock |-> S.superblock, inode_table |-> S.inode_table,
     root_directory |-> S.root_directory]

\* Every host call of a replay succeeds.
AllOk == [i \in 0..(JOURNAL_SIZE - 1) |-> TRUE]

\* The journal holds fewer than JOURNAL_SIZE entries, all of them create,
\* delete or rename entries appended since the start, and the directory
\* lists the files of the host directory.
DirectRun ==
    /\ journal_index < JOURNAL_SIZE
    /\ NonEmptySlots(journal) = 0..(journal_index - 1)
    /\ \A i \in NonEmptySlots(journal) :
            /\ journal[i].operation \in {"CREATE", "DELETE", "RENAME"}
            /\ journal[i].data = ""
    /\ journal_file = JournalLines(journal, 0)
    /\ {root_directory[k].name : k \in 1..Len(root_directory)}
            = {n \in Names : host[n] # "none"}

\* A new process over an empty directory that finds the journal.log the
\* current one has saved, after init_journal.
Reloaded(junk) ==
    init_journal([init_file_system EXCEPT
                     !.journal_file = save_journal(Cur).journal_file],
                 junk)

\* C11: after fewer than JOURNAL_SIZE create, delete and rename operations,
\* the journal saved, read back by init_journal into a fresh state and
\* replayed gives the directory the operations gave, and every entry reads
\* back with the operation, filename and new_filename that were written.
C11_JournalRoundTrip ==
    DirectRun =>
        \A junk \in JunkFills :
            /\ \A i \in NonEmptySlots(journal) :
                    /\ Reloaded(junk).journal[i].operation = journal[i].operation
                    /\ Reloaded(junk).journal[i].filename = journal[i].filename
                    /\ Reloaded(junk).journal[i].new_filename = journal[i].new_filename
            /\ replay_journal(Reloaded(junk), AllOk).root_directory = root_directory

\* The operation that led from the current state to S2 changed no
\* bookkeeping state and appended no journal entry.
NotHappened(S2) ==
    /\ Bookkeeping(S2) = Bookkeeping(Cur)
    /\ S2.journal = journal
    /\ S2.journal_index = journal_index
    /\ S2.journal_file = journal_file

\* C12: an operation whose host step fails or is not performed (create_file
\* when fopen fails, create_directory when no inode is left after the mkdir,
\* delete_file and rename_file when the host call fails, edit_file when the
\* dialog is cancelled or the file cannot be opened for saving) leaves the
\* superblock, the inode table and the directory as they were and appends
\* no journal entry.
C12_FailedHostStepChangesNothing ==
    \A n \in Names :
        /\ ~file_exists(Cur, n) => NotHappened(create_file(Cur, n, 0, FALSE).st)
        /\ create_inode(Cur, 1, Octal(7, 5, 5), current_user_id, current_group_id).ret = -1
                => NotHappened(create_directory(Cur, n, TRUE).st)
        /\ NotHappened(delete_file(Cur, n, FALSE))
        /\ \A m \in Names : NotHappened(rename_file(Cur, n, m, FALSE))
        /\ \A text \in ContentArgs :
                /\ NotHappened(edit_file(Cur, n, TRUE, "CANCEL", text, TRUE))
                /\ NotHappened(edit_file(Cur, n, TRUE, "ACCEPT", text, FALSE))

\* has_permission denies the current user every permission on the inode of
\* the directory entry named n.
DeniedAll(n) ==
    LET inode_number == find_inode_by_filename(Cur, n)
    IN  /\ inode_number # -1
        /\ \A p \in {PERMISSION_READ, PERMISSION_WRITE, PERMISSION_EXECUTE} :
                has_permission(Cur, inode_number, current_user_id, p) = 0

\* C13: delete_file, rename_file and change_file_permissions change nothing
\* on a file on which has_permission denies the current user every
\* permission.
C13_DeniedOperationChangesNothing ==
    \A n \in Names :
        DeniedAll(n) =>
            /\ NotHappened(delete_file(Cur, n, TRUE))
            /\ \A m \in Names : NotHappened(rename_file(Cur, n, m, TRUE))
            /\ \A new_mode \in ChmodArgs :
                    NotHappened(change_file_permissions(Cur, n, new_mode, TRUE).st)

\* The operation that led from the current state to S2 appended one journal
\* entry of the given kind.
Appended(S2, operation) ==
    /\ S2.journal_index = (journal_index + 1) % JOURNAL_SIZE
    /\ S2.journal[journal_index].timestamp # 0
    /\ S2.journal[journal_index].operation = operation

\* C14: every operation that changes the state appends a journal entry of
\* its kind: create_file a CREATE entry naming the file, and set_permissions,
\* add_acl_entry and remove_acl_entry a CHANGE_PERMISSIONS entry.
C14_MutationIsJournaled ==
    /\ \A n \in Names :
            LET c == create_file(Cur, n, 0, TRUE)
            IN  c.ret = 0 =>
                    /\ Appended(c.st, "CREATE")
                    /\ c.st.journal[journal_index].filename = n
    /\ \A ino \in InodeArgs, p \in PermArgs :
            LET S2 == set_permissions(Cur, ino, p)
            IN  S2.inode_table # inode_table => Appended(S2, "CHANGE_PERMISSIONS")
    /\ \A ino \in InodeArgs, u \in AclUserArgs :
            /\ \A p \in PermArgs :
                    LET S2 == add_acl_entry(Cur, ino, u, p)
                    IN  S2.inode_table # inode_table => Appended(S2, "CHANGE_PERMISSIONS")
            /\ LET S2 == remove_acl_entry(Cur, ino, u)
               IN  S2.inode_table # inode_table => Appended(S2, "CHANGE_PERMISSIONS")

\* The blocks the inode refers to: its direct blocks and its index block,
\* where set.
BlocksHeld(inode) ==
    ({inode.direct_blocks[j] : j \in 0..(DIRECT_BLOCKS - 1)} \cup {inode.index_block})
        \ {-1}

\* The directory entries whose host file delete_file can remove.
Deletable == {k \in 1..Len(root_directory) : host[root_directory[k].name] = "file"}

\* C15: on the empty table create_inode(0, 0777, 11, 10) returns slot 0;
\* once delete_file has released the inode of a file, the blocks the inode
\* held are free and its size is 0, and the next create_inode returns the
\* same slot 0 with every direct block and the index block -1 and an empty
\* ACL.
C15_InodeReuse ==
    /\ superblock.free_inode_count = INODE_TABLE_SIZE =>
            create_inode(Cur, 0, Octal(7, 7, 7), current_user_id, current_group_id).ret = 0
    /\ \A k \in Deletable :
            LET inode_number == root_directory[k].inode_number
                S1 == delete_file(Cur, root_directory[k].name, TRUE)
                c == create_inode(S1, 0, Octal(7, 7, 7), current_user_id, current_group_id)
                new == c.st.inode_table[c.ret]
            IN  /\ inode_number = 0
                /\ S1.inode_table[inode_number].size = 0
                /\ \A b \in BlocksHeld(inode_table[inode_number]) \cap BlockRange :
                        S1.superblock.free_block_bitmap[b] = 0
                /\ superblock.free_inode_count > 0 =>
                        /\ c.ret = inode_number
                        /\ \A j \in 0..(DIRECT_BLOCKS - 1) : new.direct_blocks[j] = -1
                        /\ new.index_block = -1
                        /\ acl_count(new) = 0

\* A file that delete_file can release, its inode with ACL entries, and an
\* inode left to hand out.
C15_Witness ==
    /\ superblock.free_inode_count > 0
    /\ \E k \in Deletable :
            /\ ScanDirectory(root_directory, root_directory[k].name, 1) = k
            /\ acl_count(inode_table[root_directory[k].inode_number]) > 0

\* C16: the slot create_inode hands out has size 0 and is_directory false:
\* the slot of a directory that was not released is not handed out.
C16_HandsOutFreeSlot ==
    \A is_directory \in {0, 1} :
        LET c == create_inode(Cur, is_directory, Octal(7, 7, 7),
                              current_user_id, current_group_id)
        IN  c.ret # -1 =>
                /\ inode_table[c.ret].size = 0
                /\ inode_table[c.ret].is_directory = 0

\* The slots whose size is 0.
ZeroSizeSlots == {k \in InodeRange : inode_table[k].size = 0}

\* C17: create_inode returns the lowest slot whose size is 0, sets its
\* is_directory, mode, owner and group to the arguments, its block
\* references to -1 and its acl_count to 0, and lowers free_inode_count by
\* one; it returns -1, changing nothing, exactly when free_inode_count is 0
\* or no slot has size 0.
C17_CreateInodeContract ==
    \A is_directory \in {0, 1}, mode \in ModeArgs, owner_id \in UserArgs,
       group_id \in UserArgs :
        LET c == create_inode(Cur, is_directory, mode, owner_id, group_id)
        IN  IF superblock.free_inode_count = 0 \/ ZeroSizeSlots = {}
            THEN c.ret = -1 /\ c.st = Cur
            ELSE /\ c.ret \in ZeroSizeSlots
                 /\ \A l \in ZeroSizeSlots : c.ret <= l
                 /\ c.st.inode_table[c.ret].is_directory = is_directory
                 /\ c.st.inode_table[c.ret].mode = mode
                 /\ c.st.inode_table[c.ret].owner_id = owner_id
                 /\ c.st.inode_table[c.ret].group_id = group_id
                 /\ \A j \in 0..(DIRECT_BLOCKS - 1) :
                        c.st.inode_table[c.ret].direct_blocks[j] = -1
                 /\ c.st.inode_table[c.ret].index_block = -1
                 /\ acl_count(c.st.inode_table[c.ret]) = 0
                 /\ c.st.superblock.free_inode_count = superblock.free_inode_count - 1

\* create_inode has handed out slots until none was left: the case where it
\* fails, after the cases where it succeeds.
C17_Witness ==
    /\ superblock.free_inode_count = 0
    /\ inode_table[0].owner_id = current_user_id
    /\ inode_table[0].index_block = -1

\* S1 is the current state with the inode inode_number released: its
\* blocks freed and unset, size 0 and is_directory false, and
\* free_inode_count, its mode, owner, group and ACL and every other inode
\* as they were.
Released(S1, inode_number) ==
    LET old == inode_table[inode_number]
        new == S1.inode_table[inode_number]
    IN  /\ \A b \in BlocksHeld(old) \cap BlockRange :
                S1.superblock.free_block_bitmap[b] = 0
        /\ \A j \in 0..(DIRECT_BLOCKS - 1) : new.direct_blocks[j] = -1
        /\ new.index_block = -1
        /\ new.size = 0
        /\ new.is_directory = 0
        /\ S1.superblock.free_inode_count = superblock.free_inode_count
        /\ new.mode = old.mode
        /\ new.owner_id = old.owner_id
        /\ new.group_id = old.group_id
        /\ new.acl = old.acl
        /\ \A o \in InodeRange \ {inode_number} : S1.inode_table[o] = inode_table[o]

\* The first directory entry named n, or 0.
EntryOf(n) == ScanDirectory(root_directory, n, 1)

\* C18: delete_file on a file and delete_directory on a directory whose name
\* is in the directory release the inode of its entry: every block it holds
\* is freed and unset, its size becomes 0 and is_directory false, and
\* free_inode_count, its mode, owner, group and ACL and the other inodes do
\* not change.
C18_ReleaseFrame ==
    \A n \in Names :
        EntryOf(n) # 0 =>
            /\ host[n] = "file" =>
                    Released(delete_file(Cur, n, TRUE),
                             root_directory[EntryOf(n)].inode_number)
            /\ host[n] = "dir" =>
                    Released(delete_directory(Cur, n, TRUE),
                             root_directory[EntryOf(n)].inode_number)

\* A directory in the directory index whose inode has ACL entries, next to
\* the entry of a file.
C18_Witness ==
    \E n \in Names, m \in Names :
        /\ EntryOf(n) # 0 /\ host[n] = "dir"
        /\ EntryOf(m) # 0 /\ host[m] = "file"
        /\ inode_table[root_directory[EntryOf(n)].inode_number].is_directory = 1
        /\ acl_count(inode_table[root_directory[EntryOf(n)].inode_number]) > 0

\* The entry of slot i is one whose replay fails: a CREATE whose file is
\* there, a DELETE whose file is not, or an operation that is none of the
\* enumeration.
FailsOnReplay(i) ==
    /\ journal[i].timestamp # 0
    /\ \/ journal[i].operation = "CREATE" /\ file_exists(Cur, journal[i].filename)
       \/ journal[i].operation = "DELETE" /\ ~file_exists(Cur, journal[i].filename)
       \/ journal[i].operation = "UNKNOWN"

ReplayOks == [0..(JOURNAL_SIZE - 1) -> BOOLEAN]

\* C19: the replay of an entry that fails (a CREATE whose file exists, a
\* DELETE whose file is missing, an unknown operation) changes no
\* bookkeeping state, and the entries after it are replayed as they are
\* without it.
C19_ReplayFailureIsSkipped ==
    \A i \in 0..(JOURNAL_SIZE - 1) :
        FailsOnReplay(i) =>
            \A ok \in ReplayOks :
                /\ Bookkeeping(ReplayStep(Cur, i, ok[i])) = Bookkeeping(Cur)
                /\ ReplayFrom(Cur, i, ok) = ReplayFrom(Cur, i + 1, ok)

\* The journal holds an entry with an unknown operation, an entry whose
\* replay fails on its file, and after them an entry whose replay changes
\* the directory.
C19_Witness ==
    \E i \in 0..(JOURNAL_SIZE - 1), k \in 0..(JOURNAL_SIZE - 1) :
        /\ FailsOnReplay(i) /\ journal[i].operation = "UNKNOWN"
        /\ FailsOnReplay(k) /\ journal[k].operation \in {"CREATE", "DELETE"}
        /\ Bookkeeping(ReplayFrom(Cur, i + 1, AllOk)) # Bookkeeping(Cur)
        /\ Bookkeeping(ReplayFrom(Cur, k + 1, AllOk)) # Bookkeeping(Cur)

\* C20: a snapshot saved in any state and then loaded, in the same process
\* or by the next run of the program, gives the superblock and the inode
\* table of the moment of the save, whatever snapshot was there before; with
\* no snapshot the load changes nothing and a new run keeps the initial
\* superblock and the zeroed inode table.
C20_SnapshotRoundTrip ==
    /\ LET S1 == save_file_system_state(Cur, TRUE)
       IN  /\ load_file_system_state(S1).superblock = superblock
           /\ load_file_system_state(S1).inode_table = inode_table
           /\ main(S1).superblock = superblock
           /\ main(S1).inode_table = inode_table
    /\ snapshot = <<>> =>
           /\ load_file_system_state(Cur) = Cur
           /\ main(Cur).superblock = init_file_system.superblock
           /\ main(Cur).inode_table = init_file_system.inode_table

\* A snapshot is there that differs from the current superblock and inode
\* table, which themselves differ from the initial ones.
C20_Witness ==
    /\ snapshot # <<>>
    /\ snapshot[1].superblock # superblock
    /\ snapshot[1].inode_table # inode_table
    /\ superblock # init_file_system.superblock
    /\ inode_table # init_file_system.inode_table

\* ------------------------------------------------------------------------
\* C21..C30.

\* C21: in every reachable state the mode of every inode is a 9-bit
\* permission word, 0 <= mode <= 0777: no operation stores a mode with a bit
\* outside the owner, group and other classes.
C21_ModeIsNineBits ==
    \A i \in InodeRange : inode_table[i].mode \in 0..Octal(7, 7, 7)

\* The indices of the ACL entries of user_id in the inode.
AclMatches(inode, user_id) ==
    {k \in 1..acl_count(inode) : inode.acl[k].user_id = user_id}

\* new is old without its entry at index i: one entry fewer, the entries
\* before i in place and the entries after i one index lower.
WithoutEntry(new, old, i) ==
    /\ Len(new) = Len(old) - 1
    /\ \A k \in 1..Len(new) : new[k] = IF k < i THEN old[k] ELSE old[k + 1]

\* C22: remove_acl_entry removes the first ACL entry of user_id and nothing
\* else, so that acl_count is one lower and the other entries keep their
\* order; with no entry of user_id or an inode number out of range nothing
\* changes.
C22_RemoveFirstMatchingAclEntry ==
    \A inode_number \in InodeArgs, user_id \in UserArgs :
        LET S2 == remove_acl_entry(Cur, inode_number, user_id)
        IN  IF inode_number \notin InodeRange
               \/ AclMatches(inode_table[inode_number], user_id) = {}
            THEN S2 = Cur
            ELSE LET found == AclMatches(inode_table[inode_number], user_id)
                     first == CHOOSE k \in found : \A l \in found : k <= l
                 IN  /\ WithoutEntry(S2.inode_table[inode_number].acl,
                                     inode_table[inode_number].acl, first)
                     /\ acl_count(S2.inode_table[inode_number])
                            = acl_count(inode_table[inode_number]) - 1
                     /\ S2 = [Cur EXCEPT !.inode_table[inode_number].acl =
                                            S2.inode_table[inode_number].acl]

\* An ACL with two entries of one user that differ, and an entry of another
\* user between them.
C22_Witness ==
    \E i \in InodeRange :
        /\ acl_count(inode_table[i]) >= 3
        /\ inode_table[i].acl[1].user_id = inode_table[i].acl[3].user_id
        /\ inode_table[i].acl[1] # inode_table[i].acl[3]
        /\ inode_table[i].acl[2].user_id # inode_table[i].acl[1].user_id

\* The indices of the directory entries named n.
Named(n) == {k \in 1..Len(root_directory) : root_directory[k].name = n}

SlotOfLine(j, k) ==
    CHOOSE s \in NonEmptySlots(j) :
        Cardinality({t \in NonEmptySlots(j) : t < s}) = k - 1

\* The log holds one line per non-empty slot of j, in slot order, with the
\* timestamp, the operation and the strings of the slot.
LogIsJournal(log, j) ==
    /\ Len(log) = Cardinality(NonEmptySlots(j))
    /\ \A k \in 1..Len(log) :
            LET entry == j[SlotOfLine(j, k)]
            IN  /\ log[k].timestamp = entry.timestamp
                /\ log[k].words = operation_to_string(entry.operation)
                                  \o Word(entry.filename)
                                  \o Word(entry.new_filename)
                                  \o Word(entry.data)

C25_ChmodContract ==
    \A n \in Names, new_mode \in ChmodArgs :
        IF Named(n) = {}
        THEN \A fopen_ok \in BOOLEAN :
                LET c == change_file_permissions(Cur, n, new_mode, fopen_ok)
                IN  c.ret = -1 /\ c.st = Cur
        ELSE LET c == change_file_permissions(Cur, n, new_mode, TRUE)
                 first == CHOOSE k \in Named(n) : \A l \in Named(n) : k <= l
                 inode_number == root_directory[first].inode_number
             IN  /\ c.ret = 0
                 /\ c.st.inode_table =
                        [inode_table EXCEPT ![inode_number].mode = new_mode]
                 /\ c.st.superblock = superblock
                 /\ c.st.root_directory = root_directory
                 /\ Len(c.st.snapshot) = 1
                 /\ c.st.snapshot[1].inode_table = c.st.inode_table
                 /\ c.st.snapshot[1].superblock = superblock
                 /\ Appended(c.st, "CHANGE_PERMISSIONS")
                 /\ c.st.journal[journal_index].filename = n
                 /\ c.st.journal[journal_index].new_filename = mode_str(new_mode)
                 /\ \A s \in 0..(JOURNAL_SIZE - 1) \ {journal_index} :
                        c.st.journal[s] = journal[s]

\* One name has a directory entry and the other has none, and the snapshot
\* on disk holds a mode that the inode of the entry no longer has.
C25_Witness ==
    /\ \E n \in Names, m \in Names : Named(n) # {} /\ Named(m) = {}
    /\ snapshot # <<>>
    /\ \E k \in 1..Len(root_directory) :
            snapshot[1].inode_table[root_directory[k].inode_number].mode
                # inode_table[root_directory[k].inode_number].mode

\* C26: in every state reached by create_file, create_directory, the
\* deletes, rename_file and replay_journal, entry_count is within
\* 0..MAX_FILES.
C26_DirectoryWithinCapacity ==
    Len(root_directory) \in 0..MAX_FILES

\* The directory holds MAX_FILES entries and a create_file of a name that
\* is not in the host directory is refused.
C26_Witness ==
    /\ Len(root_directory) = MAX_FILES
    /\ \E n \in Names :
            /\ ~file_exists(Cur, n)
            /\ create_file(Cur, n, 0, TRUE).ret = -1
            /\ create_directory(Cur, n, TRUE).ret = -1

\* C27: in every reachable state no two directory entries refer to the same
\* inode number.
C27_EntriesOwnTheirInode ==
    \A k \in 1..Len(root_directory), l \in 1..Len(root_directory) :
        k # l => root_directory[k].inode_number # root_directory[l].inode_number

\* free_inode_count of a state.
Count(S) == S.superblock.free_inode_count

\* C28: free_inode_count stays within 0..INODE_TABLE_SIZE and no operation
\* raises it: create_inode, and with it create_file and create_directory,
\* lowers it by one when it hands out a slot and leaves it otherwise, the
\* deletes and rename_file leave it, and at 0 every create_file and
\* create_directory fails and adds no entry, also when the directory is
\* empty again.
C28_FreeInodeCountOnlyFalls ==
    /\ Count(Cur) \in 0..INODE_TABLE_SIZE
    /\ \A is_directory \in {0, 1} :
            LET c == create_inode(Cur, is_directory, Octal(7, 7, 7),
                                  current_user_id, current_group_id)
            IN  Count(c.st) = IF c.ret = -1 THEN Count(Cur) ELSE Count(Cur) - 1
    /\ \A n \in Names, ok \in BOOLEAN :
            /\ LET c == create_file(Cur, n, 0, ok)
               IN  Count(c.st) =
                        IF Len(c.st.root_directory) > Len(root_directory)
                        THEN Count(Cur) - 1 ELSE Count(Cur)
            /\ LET c == create_directory(Cur, n, ok)
               IN  Count(c.st) =
                        IF Len(c.st.root_directory) > Len(root_directory)
                        THEN Count(Cur) - 1 ELSE Count(Cur)
            /\ Count(delete_file(Cur, n, ok)) = Count(Cur)
            /\ Count(delete_directory(Cur, n, ok)) = Count(Cur)
            /\ \A m \in Names : Count(rename_file(Cur, n, m, ok)) = Count(Cur)
            /\ (Count(Cur) = 0 /\ ~file_exists(Cur, n)) =>
                    /\ create_file(Cur, n, 0, ok).ret = -1
                    /\ create_directory(Cur, n, ok).ret = -1
                    /\ create_file(Cur, n, 0, ok).st.root_directory = root_directory
                    /\ create_directory(Cur, n, ok).st.root_directory = root_directory
    /\ \A ok \in ReplayOks : Count(replay_journal(Cur, ok)) <= Count(Cur)

\* INODE_TABLE_SIZE inodes were handed out and everything created was
\* deleted again: the directory and the host directory are empty.
C28_Witness ==
    /\ Count(Cur) = 0
    /\ root_directory = <<>>
    /\ \A n \in Names : ~file_exists(Cur, n)
    /\ \E i \in NonEmptySlots(journal) : journal[i].operation = "DELETE"

\* C29: replay_journal only reads the journal: after a replay the ring slots
\* and journal_index are those before it.
C29_ReplayLeavesJournal ==
    \A ok \in ReplayOks :
        LET S2 == replay_journal(Cur, ok)
        IN  /\ S2.journal = journal
            /\ S2.journal_index = journal_index

\* The ring holds only CREATE and MODIFY entries: nothing a replay applies
\* removes or renames a file.
OnlyCreatesAndEdits(S) ==
    \A i \in NonEmptySlots(S.journal) : S.journal[i].operation \in {"CREATE", "MODIFY"}

\* C30: after edit_file has saved new_contents to a file, the MODIFY entry
\* it appended carries new_contents, and a replay of the journal whose host
\* calls all succeed leaves the file with new_contents (the journal holding
\* no entry that removes or renames a file).
C30_ReplayRestoresEdit ==
    \A filename \in Names, new_contents \in ContentArgs :
        (host[filename] = "file" /\ OnlyCreatesAndEdits(Cur)) =>
            LET S1 == edit_file(Cur, filename, TRUE, "ACCEPT", new_contents, TRUE)
            IN  /\ S1.content[filename] = new_contents
                /\ S1.journal[journal_index].operation = "MODIFY"
                /\ S1.journal[journal_index].data = new_contents
                /\ replay_journal(S1, AllOk).content[filename] = new_contents

====
